---- MODULE Spec2Model ----
(***************************************************************************)
(* Model of the two accessibility command-line tools of                    *)
(* skills/accessible-web-dev/scripts:                                      *)
(*   accessibility_audit.py  (AccessibilityAuditor, audit_file,            *)
(*                            audit_directory, main)                       *)
(*   contrast_checker.py     (ColorContrastChecker, suggest_adjustments,   *)
(*                            main)                                        *)
(* Strings are sequences of one-character strings, so that strip(),        *)
(* lower(), substring tests and the regular expressions of parse_color are *)
(* computed rather than assumed.  A parsed document (the BeautifulSoup     *)
(* tree) is the sequence of its elements in document order, each with the  *)
(* index of its parent element (0 for the root of the tree).               *)
(***************************************************************************)
EXTENDS Integers, Sequences, FiniteSets, TLC

VARIABLES
    self,       \* the AccessibilityAuditor object: wcag_level, issues (a list reference)
    heap,       \* the list objects allocated so far: reference -> list of issues
    returned,   \* the references returned by the audit_html calls so far, in call order
    called,     \* the documents passed to the audit_html calls so far, in call order
    argv,       \* auditor command line: has_path, wcag_level, output_format
    fs,         \* what the path names: kind (missing, file, dir) and its .html files
    pc,         \* position of the auditor's main: start, loop (in audit_directory), exit
    idx,        \* audit_directory: position of the loop in html_files
    total_errors, \* audit_directory: total_errors
    exit_code,  \* exit status of the process, -1 while it runs
    log,        \* the audit_file calls made so far, in order
    stderr,     \* what was printed on sys.stderr, in order
    runs,       \* two audits of one file side by side, each with its own --wcag-level
    shared,     \* the file both of them audit
    cargs,      \* contrast checker: the command line, or the arguments of the call
    cpc,        \* contrast checker: start, then exit (of main) or return (of a call)
    result,     \* contrast checker: what the calls returned
    cexit,      \* contrast checker: exit status of the process, -1 while it runs
    cout,       \* contrast checker: what was printed on stdout, in order
    cerr        \* contrast checker: what was printed on stderr, in order

auditorVars == <<self, heap, returned, called>>
driverVars == <<argv, fs, pc, idx, total_errors, exit_code, log, stderr>>
levelVars == <<runs, shared>>
contrastVars == <<cargs, cpc, result, cexit, cout, cerr>>
vars == <<auditorVars, driverVars, levelVars, contrastVars>>

(***************************************************************************)
(* Bounds                                                                  *)
(***************************************************************************)
MaxElems == 2       \* elements of a document besides <html>
MaxCalls == 2       \* audit_html calls on one auditor
MaxCallElems == 1   \* elements of a document in a sequence of calls
MaxFiles == 2       \* .html files of a directory
MaxFileElems == 1   \* elements of a file's document besides <html>
MaxLevelElems == 1  \* elements of the document audited at two levels

(***************************************************************************)
(* Strings                                                                 *)
(***************************************************************************)
UpperChars == <<"A","B","C","D","E","F","G","H","I","J","K","L","M",
                "N","O","P","Q","R","S","T","U","V","W","X","Y","Z">>
LowerChars == <<"a","b","c","d","e","f","g","h","i","j","k","l","m",
                "n","o","p","q","r","s","t","u","v","w","x","y","z">>
Whitespace == {" ", "\t", "\n"}

lower_char(c) ==
    IF \E i \in 1..Len(UpperChars) : UpperChars[i] = c
    THEN LowerChars[CHOOSE i \in 1..Len(UpperChars) : UpperChars[i] = c]
    ELSE c

upper_char(c) ==
    IF \E i \in 1..Len(LowerChars) : LowerChars[i] = c
    THEN UpperChars[CHOOSE i \in 1..Len(LowerChars) : LowerChars[i] = c]
    ELSE c

lower(s) == [i \in 1..Len(s) |-> lower_char(s[i])]
upper(s) == [i \in 1..Len(s) |-> upper_char(s[i])]

RECURSIVE lstrip(_)
lstrip(s) == IF s # <<>> /\ Head(s) \in Whitespace THEN lstrip(Tail(s)) ELSE s

RECURSIVE rstrip(_)
rstrip(s) ==
    IF s # <<>> /\ s[Len(s)] \in Whitespace THEN rstrip(SubSeq(s, 1, Len(s) - 1)) ELSE s

strip(s) == rstrip(lstrip(s))

\* Python's `sub in s` on strings
contains(s, sub) ==
    \E i \in 0..(Len(s) - Len(sub)) : SubSeq(s, i + 1, i + Len(sub)) = sub

(***************************************************************************)
(* The document tree (external parser's output)                            *)
(***************************************************************************)
El(tag, attrs, text) == [tag |-> tag, attrs |-> attrs, text |-> text, parent |-> 0]

has_attr(e, name) == \E p \in e.attrs : p[1] = name

\* e.get(name, default)
get_default(e, name, default) ==
    IF has_attr(e, name) THEN (CHOOSE p \in e.attrs : p[1] = name)[2] ELSE default

\* truthiness of e.get(name): the attribute is present and not the empty string
get_truthy(e, name) == has_attr(e, name) /\ get_default(e, name, <<>>) # <<>>

RECURSIVE is_descendant(_, _, _)
is_descendant(soup, j, i) ==
    IF soup[j].parent = 0 THEN FALSE
    ELSE soup[j].parent = i \/ is_descendant(soup, soup[j].parent, i)

RECURSIVE select_seq(_, _, _)
select_seq(soup, S, i) ==
    IF i > Len(soup) THEN <<>>
    ELSE (IF i \in S THEN <<i>> ELSE <<>>) \o select_seq(soup, S, i + 1)

\* soup.find_all(tags): the matching elements in document order
find_all(soup, tags) ==
    select_seq(soup, {i \in 1..Len(soup) : soup[i].tag \in tags}, 1)

\* soup.find_all(attrs={name: True})
find_all_attr(soup, name) ==
    select_seq(soup, {i \in 1..Len(soup) : has_attr(soup[i], name)}, 1)

\* soup.find_all(attrs={name: value})
find_all_attr_value(soup, name, value) ==
    select_seq(soup, {i \in 1..Len(soup) :
        has_attr(soup[i], name) /\ get_default(soup[i], name, <<>>) = value}, 1)

\* elem.find(tag) is not None: a descendant with that tag
elem_find(soup, i, tag) ==
    \E j \in 1..Len(soup) : soup[j].tag = tag /\ is_descendant(soup, j, i)

\* elem.find_all(tag): the descendants with that tag, in document order
elem_find_all(soup, i, tag) ==
    select_seq(soup, {j \in 1..Len(soup) : soup[j].tag = tag /\ is_descendant(soup, j, i)}, 1)

RECURSIVE text_from(_, _, _)
text_from(soup, i, j) ==
    IF j > Len(soup) THEN <<>>
    ELSE (IF j = i \/ is_descendant(soup, j, i) THEN strip(soup[j].text) ELSE <<>>)
         \o text_from(soup, i, j + 1)

\* elem.get_text(strip=True): the stripped strings of the element and its
\* descendants, joined
get_text_strip(soup, i) == text_from(soup, i, i)

(***************************************************************************)
(* AccessibilityAuditor                                                    *)
(***************************************************************************)
AccessibilityIssue(severity, wcag, message, element) ==
    [severity |-> severity, wcag_criterion |-> wcag, message |-> message,
     element |-> element, line_number |-> 0]

\* _add_issue: appends to the list self.issues refers to.  `element` is the
\* index of the offending element, 0 when the issue has no element.
_add_issue(this, severity, wcag, message, element) ==
    [this EXCEPT !.issues = Append(@, AccessibilityIssue(severity, wcag, message, element))]

suspicious_patterns ==
    { <<"i","m","a","g","e"," ","o","f">>, <<"p","i","c","t","u","r","e"," ","o","f">>,
      <<"g","r","a","p","h","i","c"," ","o","f">>, <<"p","h","o","t","o"," ","o","f">> }

RECURSIVE images_loop(_, _, _)
images_loop(this, soup, images) ==
    IF images = <<>> THEN this
    ELSE LET img == Head(images)
             alt_text == lower(get_default(soup[img], "alt", <<>>))
             next ==
                 IF ~has_attr(soup[img], "alt")
                 THEN _add_issue(this, "error", "1.1.1", "Image missing alt attribute", img)
                 ELSE IF strip(get_default(soup[img], "alt", <<>>)) # <<>>
                         /\ \E pattern \in suspicious_patterns : contains(alt_text, pattern)
                      THEN _add_issue(this, "warning", "1.1.1",
                                      "Alt text may be overly descriptive", img)
                      ELSE this
         IN images_loop(next, soup, Tail(images))

\* _check_images that runs for level AAA only
_check_images_aaa_only(this, soup) ==
    IF this.wcag_level = "AAA" THEN images_loop(this, soup, find_all(soup, {"img"})) ELSE this

_check_images(this, soup) == images_loop(this, soup, find_all(soup, {"img"}))

HeadingTags == {"h1", "h2", "h3", "h4", "h5", "h6"}

\* int(heading.name[1])
heading_level(tag) ==
    CASE tag = "h1" -> 1 [] tag = "h2" -> 2 [] tag = "h3" -> 3
      [] tag = "h4" -> 4 [] tag = "h5" -> 5 [] tag = "h6" -> 6

RECURSIVE headings_loop(_, _, _, _)
headings_loop(this, soup, headings, prev_level) ==
    IF headings = <<>> THEN this
    ELSE LET heading == Head(headings)
             current_level == heading_level(soup[heading].tag)
             s1 == IF prev_level > 0 /\ current_level - prev_level > 1
                   THEN _add_issue(this, "error", "1.3.1", "Heading level skipped", heading)
                   ELSE this
             s2 == IF get_text_strip(soup, heading) = <<>>
                   THEN _add_issue(s1, "error", "2.4.6", "Empty heading", heading)
                   ELSE s1
         IN headings_loop(s2, soup, Tail(headings), current_level)

\* _check_headings with the walk started as if an h1 came before the first heading
_check_headings_after_h1(this, soup) ==
    LET headings == find_all(soup, HeadingTags)
        h1_count == Len(find_all(soup, {"h1"}))
    IN IF headings = <<>>
       THEN _add_issue(this, "warning", "2.4.6", "No headings found", 0)
       ELSE LET s1 == IF h1_count = 0
                      THEN _add_issue(this, "error", "2.4.6", "No h1 heading found", 0)
                      ELSE IF h1_count > 1
                           THEN _add_issue(this, "warning", "2.4.6",
                                           "Multiple h1 headings found", 0)
                           ELSE this
            IN headings_loop(s1, soup, headings, 1)

\* _check_headings without the h1 count check
_check_headings_no_h1_check(this, soup) ==
    LET headings == find_all(soup, HeadingTags)
    IN IF headings = <<>>
       THEN _add_issue(this, "warning", "2.4.6", "No headings found", 0)
       ELSE headings_loop(this, soup, headings, 0)

_check_headings(this, soup) ==
    LET headings == find_all(soup, HeadingTags)
        h1_count == Len(find_all(soup, {"h1"}))
    IN IF headings = <<>>
       THEN _add_issue(this, "warning", "2.4.6", "No headings found", 0)
       ELSE LET s1 == IF h1_count = 0
                      THEN _add_issue(this, "error", "2.4.6", "No h1 heading found", 0)
                      ELSE IF h1_count > 1
                           THEN _add_issue(this, "warning", "2.4.6",
                                           "Multiple h1 headings found", 0)
                           ELSE this
            IN headings_loop(s1, soup, headings, 0)

generic_text ==
    { <<"c","l","i","c","k"," ","h","e","r","e">>, <<"r","e","a","d"," ","m","o","r","e">>,
      <<"m","o","r","e">>, <<"l","i","n","k">>, <<"h","e","r","e">> }

\* the loop of _check_links with the three checks chained by elif
RECURSIVE links_loop_first_match(_, _, _)
links_loop_first_match(this, soup, links) ==
    IF links = <<>> THEN this
    ELSE LET link == Head(links)
             link_text == get_text_strip(soup, link)
             next == IF link_text = <<>> /\ ~elem_find(soup, link, "img")
                     THEN _add_issue(this, "error", "2.4.4",
                                     "Empty link with no text or image", link)
                     ELSE IF lower(link_text) \in generic_text
                     THEN _add_issue(this, "warning", "2.4.4", "Generic link text", link)
                     ELSE IF ~has_attr(soup[link], "href")
                             \/ strip(get_default(soup[link], "href", <<>>)) = <<>>
                     THEN _add_issue(this, "error", "2.4.4",
                                     "Link missing href attribute", link)
                     ELSE this
         IN links_loop_first_match(next, soup, Tail(links))

RECURSIVE links_loop(_, _, _)
links_loop(this, soup, links) ==
    IF links = <<>> THEN this
    ELSE LET link == Head(links)
             link_text == get_text_strip(soup, link)
             s1 == IF link_text = <<>> /\ ~elem_find(soup, link, "img")
                   THEN _add_issue(this, "error", "2.4.4",
                                   "Empty link with no text or image", link)
                   ELSE this
             s2 == IF lower(link_text) \in generic_text
                   THEN _add_issue(s1, "warning", "2.4.4", "Generic link text", link)
                   ELSE s1
             s3 == IF ~has_attr(soup[link], "href")
                      \/ strip(get_default(soup[link], "href", <<>>)) = <<>>
                   THEN _add_issue(s2, "error", "2.4.4", "Link missing href attribute", link)
                   ELSE s2
         IN links_loop(s3, soup, Tail(links))

_check_links(this, soup) == links_loop(this, soup, find_all(soup, {"a"}))

skipped_input_types ==
    { <<"h","i","d","d","e","n">>, <<"s","u","b","m","i","t">>,
      <<"b","u","t","t","o","n">>, <<"r","e","s","e","t">> }

RECURSIVE inputs_loop(_, _, _)
inputs_loop(this, soup, inputs) ==
    IF inputs = <<>> THEN this
    ELSE LET input_elem == Head(inputs)
             input_type == get_default(soup[input_elem], "type", <<"t","e","x","t">>)
             has_label ==
                 /\ get_truthy(soup[input_elem], "id")
                 /\ \E l \in 1..Len(soup) :
                        /\ soup[l].tag = "label"
                        /\ has_attr(soup[l], "for")
                        /\ get_default(soup[l], "for", <<>>)
                               = get_default(soup[input_elem], "id", <<>>)
             next ==
                 IF input_type \in skipped_input_types THEN this
                 ELSE IF ~has_label /\ ~get_truthy(soup[input_elem], "aria-label")
                            /\ ~get_truthy(soup[input_elem], "aria-labelledby")
                      THEN _add_issue(this, "error", "3.3.2",
                                      "Form input missing label", input_elem)
                      ELSE this
         IN inputs_loop(next, soup, Tail(inputs))

RECURSIVE fieldsets_loop(_, _, _)
fieldsets_loop(this, soup, fieldsets) ==
    IF fieldsets = <<>> THEN this
    ELSE LET fieldset == Head(fieldsets)
             next == IF ~elem_find(soup, fieldset, "legend")
                     THEN _add_issue(this, "warning", "1.3.1",
                                     "Fieldset missing legend", fieldset)
                     ELSE this
         IN fieldsets_loop(next, soup, Tail(fieldsets))

_check_forms(this, soup) ==
    LET s1 == inputs_loop(this, soup, find_all(soup, {"input", "select", "textarea"}))
    IN fieldsets_loop(s1, soup, find_all(soup, {"fieldset"}))

RECURSIVE navs_loop(_, _, _)
navs_loop(this, soup, nav_elements) ==
    IF nav_elements = <<>> THEN this
    ELSE LET nav == Head(nav_elements)
             next == IF ~get_truthy(soup[nav], "aria-label")
                        /\ ~get_truthy(soup[nav], "aria-labelledby")
                     THEN _add_issue(this, "warning", "1.3.1",
                                     "Multiple navigation regions", nav)
                     ELSE this
         IN navs_loop(next, soup, Tail(nav_elements))

_check_page_structure(this, soup) ==
    LET s1 == IF find_all(soup, {"main"}) = <<>>
                 /\ find_all_attr_value(soup, "role", <<"m","a","i","n">>) = <<>>
              THEN _add_issue(this, "warning", "1.3.1", "No main landmark found", 0)
              ELSE this
        nav_elements ==
            find_all(soup, {"nav"})
            \o find_all_attr_value(soup, "role", <<"n","a","v","i","g","a","t","i","o","n">>)
    IN IF Len(nav_elements) > 1 THEN navs_loop(s1, soup, nav_elements) ELSE s1

RECURSIVE divs_loop(_, _, _)
divs_loop(this, soup, divs) ==
    IF divs = <<>> THEN this
    ELSE LET div == Head(divs)
             next == IF get_truthy(soup[div], "onclick")
                        \/ (has_attr(soup[div], "role")
                            /\ get_default(soup[div], "role", <<>>) = <<"b","u","t","t","o","n">>)
                     THEN _add_issue(this, "error", "4.1.2", "Div used as button", div)
                     ELSE this
         IN divs_loop(next, soup, Tail(divs))

_check_semantic_html(this, soup) == divs_loop(this, soup, find_all(soup, {"div"}))

RECURSIVE ths_loop(_, _, _)
ths_loop(this, soup, headers) ==
    IF headers = <<>> THEN this
    ELSE LET th == Head(headers)
             next == IF ~get_truthy(soup[th], "scope")
                     THEN _add_issue(this, "warning", "1.3.1",
                                     "Table header missing scope attribute", th)
                     ELSE this
         IN ths_loop(next, soup, Tail(headers))

RECURSIVE tables_loop(_, _, _)
tables_loop(this, soup, tables) ==
    IF tables = <<>> THEN this
    ELSE LET table == Head(tables)
             s1 == IF ~elem_find(soup, table, "caption")
                   THEN _add_issue(this, "warning", "1.3.1", "Table missing caption", table)
                   ELSE this
             s2 == IF ~elem_find(soup, table, "th")
                   THEN _add_issue(s1, "warning", "1.3.1",
                                   "Table has no header cells (th)", table)
                   ELSE s1
             s3 == ths_loop(s2, soup, elem_find_all(soup, table, "th"))
         IN tables_loop(s3, soup, Tail(tables))

_check_tables(this, soup) == tables_loop(this, soup, find_all(soup, {"table"}))

RECURSIVE buttons_loop(_, _, _)
buttons_loop(this, soup, buttons) ==
    IF buttons = <<>> THEN this
    ELSE LET button == Head(buttons)
             next == IF get_text_strip(soup, button) = <<>> /\ ~elem_find(soup, button, "img")
                     THEN _add_issue(this, "error", "4.1.2",
                                     "Button has no text content", button)
                     ELSE this
         IN buttons_loop(next, soup, Tail(buttons))

_check_buttons(this, soup) == buttons_loop(this, soup, find_all(soup, {"button"}))

_check_language(this, soup) ==
    LET html_tags == find_all(soup, {"html"})
    IN IF html_tags # <<>> /\ ~get_truthy(soup[Head(html_tags)], "lang")
       THEN _add_issue(this, "error", "3.1.1", "HTML element missing lang attribute",
                       Head(html_tags))
       ELSE this

discouraged_roles ==
    { <<"b","u","t","t","o","n">>, <<"l","i","n","k">>,
      <<"c","h","e","c","k","b","o","x">>, <<"r","a","d","i","o">>,
      <<"t","e","x","t","b","o","x">> }

RECURSIVE aria_loop(_, _, _)
aria_loop(this, soup, aria_elements) ==
    IF aria_elements = <<>> THEN this
    ELSE LET elem == Head(aria_elements)
             next == IF get_default(soup[elem], "role", <<>>) \in discouraged_roles
                     THEN _add_issue(this, "warning", "4.1.2",
                                     "ARIA role used - native HTML preferred", elem)
                     ELSE this
         IN aria_loop(next, soup, Tail(aria_elements))

_check_aria_usage(this, soup) == aria_loop(this, soup, find_all_attr(soup, "role"))

\* the checks with links and forms called in the other order
run_all_checks_forms_first(this, soup) ==
    LET s1 == _check_images(this, soup)
        s2 == _check_headings(s1, soup)
        s3 == _check_forms(s2, soup)
        s4 == _check_links(s3, soup)
        s5 == _check_page_structure(s4, soup)
        s6 == _check_semantic_html(s5, soup)
        s7 == _check_tables(s6, soup)
        s8 == _check_buttons(s7, soup)
        s9 == _check_language(s8, soup)
    IN _check_aria_usage(s9, soup)

\* The ten checks of audit_html, in the order the method calls them.
run_all_checks(this, soup) ==
    LET s1 == _check_images(this, soup)
        s2 == _check_headings(s1, soup)
        s3 == _check_links(s2, soup)
        s4 == _check_forms(s3, soup)
        s5 == _check_page_structure(s4, soup)
        s6 == _check_semantic_html(s5, soup)
        s7 == _check_tables(s6, soup)
        s8 == _check_buttons(s7, soup)
        s9 == _check_language(s8, soup)
    IN _check_aria_usage(s9, soup)

\* audit_html without `self.issues = []`: the checks append to the list that
\* self.issues already refers to
audit_html_no_reset(this, hp, soup) ==
    LET ref == this.issues
        done == run_all_checks([wcag_level |-> this.wcag_level, issues |-> hp[ref]], soup)
    IN [self |-> this,
        heap |-> [hp EXCEPT ![ref] = done.issues],
        ret |-> ref]

\* audit_html: binds self.issues to a new empty list, runs the checks on it and
\* returns the reference held by self.issues.
audit_html(this, hp, soup) ==
    LET ref == Len(hp) + 1
        done == run_all_checks([wcag_level |-> this.wcag_level, issues |-> <<>>], soup)
    IN [self |-> [this EXCEPT !.issues = ref],
        heap |-> Append(hp, done.issues),
        ret |-> ref]

\* the list a call of audit_html returned
returned_list(r) == r.heap[r.ret]

(***************************************************************************)
(* Documents the checks are run on                                         *)
(***************************************************************************)
T == <<"t">>
X == <<"x">>

HtmlElems ==
    { El("html", {}, <<>>), El("html", {<<"lang", <<"e","n">>>>}, <<>>) }

Elems ==
    { El("img", {}, <<>>),
      El("img", {<<"alt", <<>>>>}, <<>>),
      El("img", {<<"alt", <<"P","h","o","t","o"," ","o","f"," ","x">>>>}, <<>>),
      El("h1", {}, T),
      El("h2", {}, T),
      El("h3", {}, T),
      El("h2", {}, <<" ">>),
      El("a", {<<"href", <<"u">>>>}, T),
      El("a", {}, <<" ","H","e","r","e"," ">>),
      El("a", {<<"href", <<" ">>>>}, <<>>),
      El("input", {}, <<>>),
      El("input", {<<"type", <<"h","i","d","d","e","n">>>>}, <<>>),
      El("input", {<<"id", X>>}, <<>>),
      El("label", {<<"for", X>>}, T),
      El("fieldset", {}, <<>>),
      El("legend", {}, T),
      El("main", {}, <<>>),
      El("nav", {}, <<>>),
      El("nav", {<<"aria-label", T>>}, <<>>),
      El("nav", {<<"role", <<"n","a","v","i","g","a","t","i","o","n">>>>}, <<>>),
      El("div", {<<"role", <<"n","a","v","i","g","a","t","i","o","n">>>>}, <<>>),
      El("div", {<<"onclick", T>>}, T),
      El("div", {<<"role", <<"b","u","t","t","o","n">>>>}, T),
      El("table", {}, <<>>),
      El("caption", {}, T),
      El("th", {}, T),
      El("th", {<<"scope", <<"c","o","l">>>>}, T),
      El("button", {}, <<>>),
      El("button", {}, T),
      El("span", {<<"role", <<"l","i","n","k">>>>}, T) }

\* the elements used where several documents are audited in a row
CallElems ==
    { El("img", {}, <<>>),
      El("a", {}, <<" ","H","e","r","e"," ">>),
      El("main", {}, <<>>) }

\* which elements are placed inside which (besides directly under <html>)
Nesting ==
    { <<"a", "img">>, <<"button", "img">>, <<"fieldset", "legend">>,
      <<"fieldset", "input">>, <<"table", "caption">>, <<"table", "th">>,
      <<"nav", "a">>, <<"main", "h1">>, <<"div", "input">>, <<"h2", "a">> }

\* a new last element e may hang under p: p is the root element or nests e, and
\* p is the previous element or one of its ancestors (document order is pre-order)
OkParent(d, e, p) ==
    /\ p = 1 \/ <<d[p].tag, e.tag>> \in Nesting
    /\ p = Len(d) \/ is_descendant(d, Len(d), p)

\* the document of root element h, elements es and their parents ps
DocOf(h, es, ps) == <<h>> \o [i \in 1..Len(es) |-> [es[i] EXCEPT !.parent = ps[i]]]

\* every element hangs under an earlier one ...
ParentsBefore(d) == \A i \in 2..Len(d) : d[i].parent \in 1..(i - 1)

\* ... that may hold it
ValidDoc(d) ==
    \A i \in 2..Len(d) : OkParent(SubSeq(d, 1, i - 1), d[i], d[i].parent)

Levels == { "AA", "AAA" }

(***************************************************************************)
(* Library use of one AccessibilityAuditor                                 *)
(***************************************************************************)
\* the parts of the state a specification does not use
NoAuditor ==
    /\ self = [wcag_level |-> "AA", issues |-> 1]
    /\ heap = << <<>> >>
    /\ returned = <<>>
    /\ called = <<>>

NoDriver ==
    /\ argv = [has_path |-> FALSE, wcag_level |-> "AA", output_format |-> "text"]
    /\ fs = [kind |-> "missing", files |-> <<>>]
    /\ pc = "start"
    /\ idx = 0
    /\ total_errors = 0
    /\ exit_code = -1
    /\ log = <<>>
    /\ stderr = <<>>

NoLevels ==
    /\ runs = <<>>
    /\ shared = <<>>

NoContrast ==
    /\ cargs = <<>>
    /\ cpc = "start"
    /\ result = <<>>
    /\ cexit = -1
    /\ cout = <<>>
    /\ cerr = <<>>

\* AccessibilityAuditor(wcag_level): __init__ allocates the first list
InitAuditor ==
    /\ \E lvl \in Levels : self = [wcag_level |-> lvl, issues |-> 1]
    /\ heap = << <<>> >>
    /\ returned = <<>>
    /\ called = <<>>
    /\ NoDriver
    /\ NoLevels
    /\ NoContrast

\* the caller keeps what audit_html returned
AuditReturn(r, soup) ==
    /\ self' = r.self
    /\ heap' = r.heap
    /\ returned' = Append(returned, r.ret)
    /\ called' = Append(called, soup)
    /\ UNCHANGED <<driverVars, levelVars, contrastVars>>

AuditDoc(soup) == AuditReturn(audit_html(self, heap, soup), soup)

\* audit_html on the empty document, or on a document of a root element and up
\* to maxElems elements of E
AuditHtml(E, maxElems, maxCalls) ==
    /\ Len(called) < maxCalls
    /\ \/ AuditDoc(<<>>)
       \/ \E n \in 0..maxElems : \E h \in HtmlElems :
            \E es \in [1..n -> E] : \E ps \in [1..n -> 1..n] :
               /\ ParentsBefore(DocOf(h, es, ps))
               /\ ValidDoc(DocOf(h, es, ps))
               /\ AuditDoc(DocOf(h, es, ps))

\* one audit of any document
AuditOnce == AuditHtml(Elems, MaxElems, 1)
NextRules == AuditOnce
SpecRules == InitAuditor /\ [][NextRules]_vars

\* several audits in a row on the same auditor
AuditAgain == AuditHtml(CallElems, MaxCallElems, MaxCalls)
NextCalls == AuditAgain
SpecCalls == InitAuditor /\ [][NextCalls]_vars

(***************************************************************************)
(* Properties of audit_html                                                *)
(***************************************************************************)
\* the issues a newly constructed auditor reports for a document
FreshIssues(lvl, soup) ==
    returned_list(audit_html([wcag_level |-> lvl, issues |-> 1], << <<>> >>, soup))

LastDoc == called[Len(called)]
LastIssues == heap[returned[Len(returned)]]

\* C3: audit_html is stateless across calls: the list every call returned holds
\* exactly the issues of that call's document, whatever was audited before or
\* after it, and self.issues is the list of the latest call.
C3_Stateless ==
    /\ \A k \in 1..Len(returned) :
          heap[returned[k]] = FreshIssues(self.wcag_level, called[k])
    /\ returned # <<>> => self.issues = returned[Len(returned)]

C3_Witness ==
    /\ Len(returned) >= 2
    /\ heap[returned[1]] # heap[returned[2]]
    /\ \E i \in 1..Len(heap[returned[1]]) : heap[returned[1]][i].severity = "error"

\* the position of the rule that emits a message in audit_html's order
RuleRank(message) ==
    CASE message \in {"Image missing alt attribute", "Alt text may be overly descriptive"} -> 1
      [] message \in {"No headings found", "No h1 heading found", "Multiple h1 headings found",
                      "Heading level skipped", "Empty heading"} -> 2
      [] message \in {"Empty link with no text or image", "Generic link text",
                      "Link missing href attribute"} -> 3
      [] message \in {"Form input missing label", "Fieldset missing legend"} -> 4
      [] message \in {"No main landmark found", "Multiple navigation regions"} -> 5
      [] message = "Div used as button" -> 6
      [] message \in {"Table missing caption", "Table has no header cells (th)",
                      "Table header missing scope attribute"} -> 7
      [] message = "Button has no text content" -> 8
      [] message = "HTML element missing lang attribute" -> 9
      [] message = "ARIA role used - native HTML preferred" -> 10

\* images, headings, links, semantic HTML, buttons, language, ARIA: one walk
\* over one list of elements
SingleWalkRules == {1, 2, 3, 6, 8, 9, 10}

InRuleOrder(L) ==
    \A i, j \in 1..Len(L) : i < j => RuleRank(L[i].message) <= RuleRank(L[j].message)

\* issues i < j of one rule, both about an element, are in document order
InDocumentOrder(L, rules) ==
    \A i, j \in 1..Len(L) :
        (/\ i < j
         /\ RuleRank(L[i].message) = RuleRank(L[j].message)
         /\ RuleRank(L[i].message) \in rules
         /\ L[i].element # 0 /\ L[j].element # 0)
        => L[i].element <= L[j].element

\* C4 as stated: rule order, and document order within every rule
C4_Original ==
    returned # <<>> => InRuleOrder(LastIssues) /\ InDocumentOrder(LastIssues, 1..10)

\* the issues of L with this message, as the sequence of their elements
RECURSIVE ElementsOf(_, _)
ElementsOf(L, message) ==
    IF L = <<>> THEN <<>>
    ELSE (IF Head(L).message = message THEN <<Head(L).element>> ELSE <<>>)
         \o ElementsOf(Tail(L), message)

NonDecreasing(q) == \A i, j \in 1..Len(q) : i < j => q[i] <= q[j]

\* C4 (amended): issues are in rule order; within a rule that walks one list
\* of elements they are in document order; the forms rule reports every
\* unlabeled control before every fieldset, each group in document order; the
\* page-structure rule reports the <nav> elements (in document order) before
\* the role="navigation" elements (in document order).
C4_Order ==
    returned # <<>> =>
      LET L == LastIssues
          navs == ElementsOf(L, "Multiple navigation regions")
      IN /\ InRuleOrder(L)
         /\ InDocumentOrder(L, SingleWalkRules)
         /\ \A i, j \in 1..Len(L) :
               (L[i].message = "Fieldset missing legend"
                  /\ L[j].message = "Form input missing label") => j < i
         /\ NonDecreasing(ElementsOf(L, "Form input missing label"))
         /\ NonDecreasing(ElementsOf(L, "Fieldset missing legend"))
         /\ \E k \in 0..Len(navs) :
               /\ \A i \in 1..k : LastDoc[navs[i]].tag = "nav"
               /\ \A i \in (k + 1)..Len(navs) : has_attr(LastDoc[navs[i]], "role")
               /\ NonDecreasing(SubSeq(navs, 1, k))
               /\ NonDecreasing(SubSeq(navs, k + 1, Len(navs)))

\* issues of two rules, and a fieldset reported after a control that follows it
C4_Witness ==
    /\ returned # <<>>
    /\ \E i, j \in 1..Len(LastIssues) :
          /\ i < j
          /\ LastIssues[i].message = "Form input missing label"
          /\ LastIssues[j].message = "Fieldset missing legend"
          /\ LastIssues[j].element < LastIssues[i].element
    /\ \E i \in 1..Len(LastIssues) : RuleRank(LastIssues[i].message) < 4
    /\ \E i \in 1..Len(LastIssues) : RuleRank(LastIssues[i].message) > 4

HasIssue(L, severity, wcag) ==
    \E i \in 1..Len(L) : L[i].severity = severity /\ L[i].wcag_criterion = wcag

ImgWithoutAlt(soup) ==
    \E i \in 1..Len(soup) : soup[i].tag = "img" /\ ~has_attr(soup[i], "alt")

CountTags(soup, tags) == Cardinality({i \in 1..Len(soup) : soup[i].tag \in tags})

ErrorCount(L) == Cardinality({i \in 1..Len(L) : L[i].severity = "error"})

\* C5 as stated: an img without alt and no h1 give an error 1.1.1 and an error
\* 2.4.6, whether or not the document has other headings
C5_Original ==
    (returned # <<>> /\ ImgWithoutAlt(LastDoc) /\ CountTags(LastDoc, {"h1"}) = 0)
    => /\ HasIssue(LastIssues, "error", "1.1.1")
       /\ HasIssue(LastIssues, "error", "2.4.6")

\* C5 (amended): an img without alt, at least one heading and no h1 give at
\* least two errors, one tagged 1.1.1 and one tagged 2.4.6 ("No h1 heading
\* found"); a document with an img without alt and no heading at all gets the
\* error 1.1.1 and, for 2.4.6, only the warning "No headings found".
C5_ImgAndNoH1 ==
    (returned # <<>> /\ ImgWithoutAlt(LastDoc) /\ CountTags(LastDoc, {"h1"}) = 0)
    => /\ HasIssue(LastIssues, "error", "1.1.1")
       /\ IF CountTags(LastDoc, HeadingTags) > 0
          THEN /\ \E i \in 1..Len(LastIssues) :
                     LastIssues[i] = AccessibilityIssue("error", "2.4.6",
                                                        "No h1 heading found", 0)
               /\ ErrorCount(LastIssues) >= 2
          ELSE /\ ~HasIssue(LastIssues, "error", "2.4.6")
               /\ \E i \in 1..Len(LastIssues) :
                     LastIssues[i] = AccessibilityIssue("warning", "2.4.6",
                                                        "No headings found", 0)

\* an img without alt next to a non-empty h2, in a document with lang set
C5_Witness ==
    /\ returned # <<>>
    /\ ImgWithoutAlt(LastDoc)
    /\ CountTags(LastDoc, {"h1"}) = 0
    /\ CountTags(LastDoc, HeadingTags) > 0
    /\ ErrorCount(LastIssues) = 2

\* the navigation regions of a document: nav tags and role="navigation" elements
NavRegions(soup) ==
    { i \in 1..Len(soup) :
        \/ soup[i].tag = "nav"
        \/ <<"role", <<"n","a","v","i","g","a","t","i","o","n">>>> \in soup[i].attrs }

\* a region without a non-empty aria-label or aria-labelledby
Unlabeled(soup, i) ==
    \A a \in soup[i].attrs : a[1] \in {"aria-label", "aria-labelledby"} => a[2] = <<>>

\* the positions of the "multiple navigation regions" warnings about element i
NavWarnings(L, i) ==
    { p \in 1..Len(L) : L[p].message = "Multiple navigation regions" /\ L[p].element = i }

\* C12: the "multiple navigation regions" warning is emitted only when the
\* document has more than one navigation region (a nav tag or an element with
\* role="navigation"); with zero or one region there is no such warning, and
\* with several each unlabeled region gets exactly one.
C12_MultipleNavs ==
    returned # <<>> =>
        \A i \in 1..Len(LastDoc) :
           Cardinality(NavWarnings(LastIssues, i)) =
              IF /\ Cardinality(NavRegions(LastDoc)) > 1
                 /\ i \in NavRegions(LastDoc)
                 /\ Unlabeled(LastDoc, i)
              THEN 1 ELSE 0

\* the issues of the links rule about element i, as <<severity, message>> pairs
LinkIssues(L, i) ==
    { <<L[p].severity, L[p].message>> :
        p \in { q \in 1..Len(L) : L[q].wcag_criterion = "2.4.4" /\ L[q].element = i } }

AllThreeLinkIssues ==
    { <<"error", "Empty link with no text or image">>,
      <<"warning", "Generic link text">>,
      <<"error", "Link missing href attribute">> }

\* C13 as stated: there is a link on which all three checks of the auditor
\* fire.  The links tried have every kind of text (none, blank, a generic
\* phrase in either case, padded, other text), every kind of href (absent,
\* empty, blank, a target), and an image inside or not.
C13_Original ==
    \E text \in { <<>>, <<" ">>, <<"h","e","r","e">>, <<" ","H","e","r","e"," ">>,
                  <<"m","o","r","e">>, <<"l","i","n","k">>, T } :
    \E href \in { {}, { <<"href", <<>>>> }, { <<"href", <<" ">>>> }, { <<"href", T>> } } :
    \E inside \in { <<>>, << [El("img", {}, <<>>) EXCEPT !.parent = 2] >> } :
       LinkIssues(FreshIssues(self.wcag_level, << El("html", {}, <<>>),
                                  [El("a", href, text) EXCEPT !.parent = 1] >> \o inside),
                  2) = AllThreeLinkIssues

\* what the links rule reports about link i of a document
ExpectedLinkIssues(soup, i) ==
    (IF get_text_strip(soup, i) = <<>> /\ ~elem_find(soup, i, "img")
     THEN { <<"error", "Empty link with no text or image">> } ELSE {})
    \cup
    (IF lower(get_text_strip(soup, i)) \in
           { <<"c","l","i","c","k"," ","h","e","r","e">>, <<"r","e","a","d"," ","m","o","r","e">>,
             <<"m","o","r","e">>, <<"l","i","n","k">>, <<"h","e","r","e">> }
     THEN { <<"warning", "Generic link text">> } ELSE {})
    \cup
    (IF \A a \in soup[i].attrs : a[1] = "href" => strip(a[2]) = <<>>
     THEN { <<"error", "Link missing href attribute">> } ELSE {})

\* C13 (amended): on every link each of the three checks fires exactly on its
\* own condition (no text and no image -> error, generic text -> warning,
\* missing or blank href -> error); the href check fires together with either
\* of the other two, but the empty-link check and the generic-text check never
\* fire on the same link, so no link gets all three issues.
C13_LinkChecks ==
    returned # <<>> =>
        \A i \in 1..Len(LastDoc) :
           IF LastDoc[i].tag = "a"
           THEN /\ LinkIssues(LastIssues, i) = ExpectedLinkIssues(LastDoc, i)
                /\ LinkIssues(LastIssues, i) # AllThreeLinkIssues
                /\ ~({ <<"error", "Empty link with no text or image">>,
                       <<"warning", "Generic link text">> } \subseteq LinkIssues(LastIssues, i))
           ELSE LinkIssues(LastIssues, i) = {}

\* one link with generic text and no href, another empty with a blank href
C13_Witness ==
    /\ returned # <<>>
    /\ \E i, j \in 1..Len(LastDoc) :
          /\ LinkIssues(LastIssues, i) = { <<"warning", "Generic link text">>,
                                            <<"error", "Link missing href attribute">> }
          /\ LinkIssues(LastIssues, j) = { <<"error", "Empty link with no text or image">>,
                                            <<"error", "Link missing href attribute">> }

(***************************************************************************)
(* The headings rule on sequences of headings                              *)
(***************************************************************************)
MaxHeadings == 3    \* elements of a document of headings besides <html>

\* one audit of a document made of headings of every level, one of them empty,
\* and an element that is no heading
AuditHeadings ==
    AuditHtml({ El("h1", {}, T), El("h2", {}, T), El("h3", {}, T), El("h4", {}, T),
                El("h5", {}, T), El("h6", {}, T), El("h4", {}, <<>>), El("main", {}, <<>>) },
              MaxHeadings, 1)

SpecHeadings == InitAuditor /\ [][AuditHeadings]_vars

\* the level a heading tag stands for
LevelOfTag(tag) ==
    CHOOSE n \in 1..6 : tag = <<"h1", "h2", "h3", "h4", "h5", "h6">>[n]

IsHeading(soup, i) == soup[i].tag \in {"h1", "h2", "h3", "h4", "h5", "h6"}

\* i and j are headings that follow each other in document order
AdjacentHeadings(soup, i, j) ==
    /\ i < j
    /\ IsHeading(soup, i)
    /\ IsHeading(soup, j)
    /\ \A k \in (i + 1)..(j - 1) : ~IsHeading(soup, k)

\* the later headings of the adjacent pairs whose level goes up by more than 1
SkipTargets(soup) ==
    { j \in 1..Len(soup) :
        \E i \in 1..Len(soup) :
           /\ AdjacentHeadings(soup, i, j)
           /\ LevelOfTag(soup[j].tag) - LevelOfTag(soup[i].tag) > 1 }

\* the positions of the "heading level skipped" issues in a list of issues
SkippedIssues(L) == { p \in 1..Len(L) : L[p].message = "Heading level skipped" }

\* C11: for every non-empty sequence of headings in document order, the number
\* of "heading level skipped" errors (WCAG 1.3.1) equals the number of adjacent
\* pairs (previous, current) with level(current) - level(previous) > 1; the
\* first heading and a step down are never flagged, and each error is attached
\* to the later heading of its pair.
C11_SkippedLevels ==
    (returned # <<>> /\ CountTags(LastDoc, HeadingTags) > 0) =>
        /\ Cardinality(SkippedIssues(LastIssues)) = Cardinality(SkipTargets(LastDoc))
        /\ { LastIssues[p].element : p \in SkippedIssues(LastIssues) } = SkipTargets(LastDoc)
        /\ \A p \in SkippedIssues(LastIssues) :
              /\ LastIssues[p].severity = "error"
              /\ LastIssues[p].wcag_criterion = "1.3.1"

\* a first heading below h2, then a step down, then a skipped level
C11_Witness ==
    /\ returned # <<>>
    /\ Len(LastDoc) = 4
    /\ LevelOfTag(LastDoc[2].tag) > 2
    /\ IsHeading(LastDoc, 3)
    /\ LevelOfTag(LastDoc[3].tag) < LevelOfTag(LastDoc[2].tag) - 1
    /\ SkipTargets(LastDoc) = {4}
    /\ Cardinality(SkippedIssues(LastIssues)) = 1

(***************************************************************************)
(* audit_file, audit_directory and main of accessibility_audit.py          *)
(***************************************************************************)
\* the documents of a root element and up to n elements of E, and the empty one
DocsOver(E, n) ==
    { <<>> } \cup
    UNION { { d \in { DocOf(h, es, ps) :
                        h \in HtmlElems, es \in [1..k -> E], ps \in [1..k -> 1..k] } :
                ParentsBefore(d) /\ ValidDoc(d) } : k \in 0..n }

FileElems == { El("img", {}, <<>>), El("h1", {}, T) }

\* a file: open/read/parse succeeds and gives a document, or raises
FileContents ==
    { [readable |-> FALSE, soup |-> <<>>] }
    \cup { [readable |-> TRUE, soup |-> d] : d \in DocsOver(FileElems, MaxFileElems) }

OutputFormats == { "text", "json" }

\* len([i for i in issues if i.severity == 'error'])
count_errors(issues) == Cardinality({ i \in 1..Len(issues) : issues[i].severity = "error" })

\* sys.exit(n): the exit status of the process is the low byte of n
ExitStatus(n) == n % 256

\* audit_file: the number of error issues of the file, or 1 when reading or
\* auditing it raised (reported on stderr); the exception never leaves it
audited(issues, output_format) ==
    [ret |-> count_errors(issues), failed |-> FALSE, issues |-> issues,
     printed |-> IF output_format = "json" THEN "json" ELSE "text"]

audit_file(file, wcag_level, output_format) ==
    IF ~file.readable
    THEN [ret |-> 1, failed |-> TRUE, issues |-> <<>>, printed |-> "none"]
    ELSE audited(returned_list(audit_html([wcag_level |-> wcag_level, issues |-> 1],
                                          << <<>> >>, file.soup)),
                 output_format)

LogEntry(i, r) == [file |-> i, failed |-> r.failed, errors |-> r.ret]

ErrorAuditing(i) == <<"Error auditing", i>>

InitDriver ==
    /\ argv \in [has_path : BOOLEAN, wcag_level : Levels, output_format : OutputFormats]
    /\ \/ fs = [kind |-> "missing", files |-> <<>>]
       \/ \E f \in FileContents : fs = [kind |-> "file", files |-> <<f>>]
       \/ \E n \in 0..MaxFiles : \E fl \in [1..n -> FileContents] :
             fs = [kind |-> "dir", files |-> fl]
    /\ pc = "start"
    /\ idx = 0
    /\ total_errors = 0
    /\ exit_code = -1
    /\ log = <<>>
    /\ stderr = <<>>
    /\ NoAuditor
    /\ NoLevels
    /\ NoContrast

\* main without a path argument: prints the usage, sys.exit(1)
MainUsage ==
    /\ pc = "start"
    /\ ~argv.has_path
    /\ pc' = "exit"
    /\ exit_code' = ExitStatus(1)
    /\ UNCHANGED <<argv, fs, idx, total_errors, log, stderr, auditorVars, levelVars, contrastVars>>

\* main: the path does not exist
MainMissing ==
    /\ pc = "start"
    /\ argv.has_path
    /\ fs.kind = "missing"
    /\ stderr' = Append(stderr, <<"Error: Path not found", 0>>)
    /\ pc' = "exit"
    /\ exit_code' = ExitStatus(1)
    /\ UNCHANGED <<argv, fs, idx, total_errors, log, auditorVars, levelVars, contrastVars>>

\* exit_code = audit_file(...); sys.exit(exit_code)
MainFileExit(r) ==
    /\ log' = Append(log, LogEntry(1, r))
    /\ stderr' = IF r.failed THEN Append(stderr, ErrorAuditing(1)) ELSE stderr
    /\ exit_code' = ExitStatus(r.ret)
    /\ pc' = "exit"
    /\ UNCHANGED <<argv, fs, idx, total_errors, auditorVars, levelVars, contrastVars>>

\* main: the path is a file; sys.exit(audit_file(path, ...))
MainFile ==
    /\ pc = "start"
    /\ argv.has_path
    /\ fs.kind = "file"
    /\ MainFileExit(audit_file(fs.files[1], argv.wcag_level, argv.output_format))

\* main: the path is a directory without .html files; audit_directory returns 0
MainDirEmpty ==
    /\ pc = "start"
    /\ argv.has_path
    /\ fs.kind = "dir"
    /\ fs.files = <<>>
    /\ pc' = "exit"
    /\ exit_code' = ExitStatus(0)
    /\ UNCHANGED <<argv, fs, idx, total_errors, log, stderr, auditorVars, levelVars, contrastVars>>

\* main: the path is a directory with .html files; audit_directory starts its loop
MainDir ==
    /\ pc = "start"
    /\ argv.has_path
    /\ fs.kind = "dir"
    /\ fs.files # <<>>
    /\ pc' = "loop"
    /\ idx' = 1
    /\ total_errors' = 0
    /\ UNCHANGED <<argv, fs, exit_code, log, stderr, auditorVars, levelVars, contrastVars>>

\* errors = audit_file(...); total_errors += errors
step_result(i, total, r) ==
    [idx |-> i + 1,
     total_errors |-> total + r.ret,
     entry |-> LogEntry(i, r),
     err |-> IF r.failed THEN <<ErrorAuditing(i)>> ELSE <<>>]

\* the same, leaving the loop when the file failed
step_result_stop(i, total, r) ==
    [idx |-> IF r.failed THEN Len(fs.files) + 1 ELSE i + 1,
     total_errors |-> total + r.ret,
     entry |-> LogEntry(i, r),
     err |-> IF r.failed THEN <<ErrorAuditing(i)>> ELSE <<>>]

\* one turn of audit_directory's loop that leaves the loop when a file failed
dir_step_stop_on_failure(i, total, file, wcag_level, output_format) ==
    step_result_stop(i, total, audit_file(file, wcag_level, output_format))

\* one turn of audit_directory's loop: audit_file on html_files[i], add its result
dir_step(i, total, file, wcag_level, output_format) ==
    step_result(i, total, audit_file(file, wcag_level, output_format))

DirStore(st) ==
    /\ idx' = st.idx
    /\ total_errors' = st.total_errors
    /\ log' = Append(log, st.entry)
    /\ stderr' = stderr \o st.err
    /\ UNCHANGED <<argv, fs, pc, exit_code, auditorVars, levelVars, contrastVars>>

DirStep ==
    /\ pc = "loop"
    /\ idx <= Len(fs.files)
    /\ DirStore(dir_step(idx, total_errors, fs.files[idx], argv.wcag_level,
                         argv.output_format))

\* audit_directory's result after the loop
dir_result(total) == IF total > 0 THEN 1 ELSE 0

\* the loop is over: audit_directory returns, main calls sys.exit
DirDone ==
    /\ pc = "loop"
    /\ idx > Len(fs.files)
    /\ pc' = "exit"
    /\ exit_code' = ExitStatus(dir_result(total_errors))
    /\ UNCHANGED <<argv, fs, idx, total_errors, log, stderr, auditorVars, levelVars, contrastVars>>

NextDriver ==
    \/ MainUsage
    \/ MainMissing
    \/ MainFile
    \/ MainDirEmpty
    \/ MainDir
    \/ DirStep
    \/ DirDone

SpecDriver == InitDriver /\ [][NextDriver]_vars

(***************************************************************************)
(* Properties of the auditor's exit code and of the directory run          *)
(***************************************************************************)
FileFailed(i) == ~fs.files[i].readable

\* the error issues of the files of the run, by the documents themselves
RECURSIVE ErrorsOfFiles(_, _)
ErrorsOfFiles(files, lvl) ==
    IF files = <<>> THEN 0
    ELSE (IF Head(files).readable THEN ErrorCount(FreshIssues(lvl, Head(files).soup)) ELSE 0)
         + ErrorsOfFiles(Tail(files), lvl)

\* C1: the exit code is 1 when the path is missing, a file-level error occurred
\* or the run found an error-severity issue, and 0 otherwise; never another value.
C1_ExitCode ==
    (pc = "exit" /\ argv.has_path) =>
        exit_code = IF \/ fs.kind = "missing"
                       \/ \E i \in 1..Len(fs.files) : FileFailed(i)
                       \/ ErrorsOfFiles(fs.files, argv.wcag_level) > 0
                    THEN 1 ELSE 0

\* the failing files, in list order
RECURSIVE FailingFrom(_)
FailingFrom(i) ==
    IF i > Len(fs.files) THEN <<>>
    ELSE (IF FileFailed(i) THEN <<ErrorAuditing(i)>> ELSE <<>>) \o FailingFrom(i + 1)

\* C2: in a directory audit a failing file never stops the batch: when the run
\* ends, audit_file was called on every file exactly once in list order, stderr
\* names exactly the failing files, each failing file counted as one error,
\* and, some file having failed, the exit code is 1.
C2_BatchContinues ==
    (pc = "exit" /\ argv.has_path /\ fs.kind = "dir") =>
        /\ Len(log) = Len(fs.files)
        /\ \A k \in 1..Len(log) :
              /\ log[k].file = k
              /\ log[k].failed = FileFailed(k)
              /\ FileFailed(k) => log[k].errors = 1
        /\ stderr = FailingFrom(1)
        /\ total_errors =
              ErrorsOfFiles(fs.files, argv.wcag_level)
              + Cardinality({ k \in 1..Len(fs.files) : FileFailed(k) })
        /\ (\E k \in 1..Len(fs.files) : FileFailed(k)) => exit_code = 1

\* a failing file followed by a readable one, both audited, the run ended
C2_Witness ==
    /\ pc = "exit"
    /\ fs.kind = "dir"
    /\ Len(fs.files) >= 2
    /\ FileFailed(1) /\ ~FileFailed(2)
    /\ Len(log) = 2
    /\ log[2].errors = 0
    /\ exit_code = 1

(***************************************************************************)
(* One file audited by two runs of main that differ in --wcag-level        *)
(***************************************************************************)
NewRun(lvl) ==
    [level |-> lvl, done |-> FALSE, issues |-> <<>>, errors |-> 0, exit_code |-> -1]

InitLevels ==
    /\ \E a, b \in Levels : runs = <<NewRun(a), NewRun(b)>>
    /\ \/ shared = [readable |-> FALSE, soup |-> <<>>]
       \/ shared = [readable |-> TRUE, soup |-> <<>>]
       \/ \E n \in 0..MaxLevelElems : \E h \in HtmlElems :
            \E es \in [1..n -> Elems] : \E ps \in [1..n -> 1..n] :
               /\ ParentsBefore(DocOf(h, es, ps))
               /\ ValidDoc(DocOf(h, es, ps))
               /\ shared = [readable |-> TRUE, soup |-> DocOf(h, es, ps)]
    /\ NoAuditor
    /\ NoDriver
    /\ NoContrast

\* main on the file with run k's level: sys.exit(audit_file(path, wcag_level, ...))
RunExit(k, r) ==
    /\ runs' = [runs EXCEPT ![k] = [level |-> runs[k].level, done |-> TRUE,
                                    issues |-> r.issues, errors |-> r.ret,
                                    exit_code |-> ExitStatus(r.ret)]]
    /\ UNCHANGED <<shared, auditorVars, driverVars, contrastVars>>

RunMain(k) ==
    /\ ~runs[k].done
    /\ RunExit(k, audit_file(shared, runs[k].level, "text"))

RunFirst == RunMain(1)
RunSecond == RunMain(2)
NextLevels == RunFirst \/ RunSecond
SpecLevels == InitLevels /\ [][NextLevels]_vars

\* C10: the configured WCAG level never influences the audit: two runs on the
\* same file, whatever their levels, give the same issue list, the same error
\* count and the same exit code.
C10_LevelIgnored ==
    (runs[1].done /\ runs[2].done) =>
        /\ runs[1].issues = runs[2].issues
        /\ runs[1].errors = runs[2].errors
        /\ runs[1].exit_code = runs[2].exit_code

C10_Witness ==
    /\ runs[1].done /\ runs[2].done
    /\ runs[1].level # runs[2].level
    /\ runs[1].errors >= 2
    /\ HasIssue(runs[2].issues, "error", "1.1.1")

(***************************************************************************)
(* ColorContrastChecker                                                    *)
(***************************************************************************)
\* NAMED_COLORS: name -> hex literal, as written in the table
NAMED_COLORS ==
    {
      <<<<"w","h","i","t","e">>, <<"#","F","F","F","F","F","F">>>>,
      <<<<"b","l","a","c","k">>, <<"#","0","0","0","0","0","0">>>>,
      <<<<"r","e","d">>, <<"#","F","F","0","0","0","0">>>>,
      <<<<"g","r","e","e","n">>, <<"#","0","0","8","0","0","0">>>>,
      <<<<"b","l","u","e">>, <<"#","0","0","0","0","F","F">>>>,
      <<<<"y","e","l","l","o","w">>, <<"#","F","F","F","F","0","0">>>>,
      <<<<"c","y","a","n">>, <<"#","0","0","F","F","F","F">>>>,
      <<<<"m","a","g","e","n","t","a">>, <<"#","F","F","0","0","F","F">>>>,
      <<<<"g","r","a","y">>, <<"#","8","0","8","0","8","0">>>>,
      <<<<"g","r","e","y">>, <<"#","8","0","8","0","8","0">>>>,
      <<<<"s","i","l","v","e","r">>, <<"#","C","0","C","0","C","0">>>>,
      <<<<"m","a","r","o","o","n">>, <<"#","8","0","0","0","0","0">>>>,
      <<<<"o","l","i","v","e">>, <<"#","8","0","8","0","0","0">>>>,
      <<<<"l","i","m","e">>, <<"#","0","0","F","F","0","0">>>>,
      <<<<"a","q","u","a">>, <<"#","0","0","F","F","F","F">>>>,
      <<<<"t","e","a","l">>, <<"#","0","0","8","0","8","0">>>>,
      <<<<"n","a","v","y">>, <<"#","0","0","0","0","8","0">>>>,
      <<<<"f","u","c","h","s","i","a">>, <<"#","F","F","0","0","F","F">>>>,
      <<<<"p","u","r","p","l","e">>, <<"#","8","0","0","0","8","0">>>> }

in_named_colors(s) == \E p \in NAMED_COLORS : p[1] = s
named_color(s) == (CHOOSE p \in NAMED_COLORS : p[1] = s)[2]

\* the character class [0-9a-f]
HexChars == <<"0","1","2","3","4","5","6","7","8","9","a","b","c","d","e","f">>
is_hex(c) == \E i \in 1..Len(HexChars) : HexChars[i] = c
\* int(c, 16)
hex_digit(c) == (CHOOSE i \in 1..Len(HexChars) : HexChars[i] = c) - 1
hex_pair(a, b) == 16 * hex_digit(a) + hex_digit(b)

\* the character class \d
DigitChars == <<"0","1","2","3","4","5","6","7","8","9">>
is_digit(c) == \E i \in 1..Len(DigitChars) : DigitChars[i] = c
digit(c) == (CHOOSE i \in 1..Len(DigitChars) : DigitChars[i] = c) - 1

\* #? at the start of s: the position after it
after_hash(s) == IF s # <<>> /\ s[1] = "#" THEN 2 ELSE 1

\* re.match(r'#?([0-9a-f]{6})', s): the match starts at the start of s and may
\* end before the end of s.  The matched group, <<>> when there is no match.
match_hex6(s) ==
    IF /\ Len(s) >= after_hash(s) + 5
       /\ \A i \in after_hash(s)..(after_hash(s) + 5) : is_hex(s[i])
    THEN SubSeq(s, after_hash(s), after_hash(s) + 5)
    ELSE <<>>

\* re.match(r'#?([0-9a-f])([0-9a-f])([0-9a-f])$', s): the three digits must end s
match_hex3(s) ==
    IF /\ Len(s) = after_hash(s) + 2
       /\ \A i \in after_hash(s)..(after_hash(s) + 2) : is_hex(s[i])
    THEN SubSeq(s, after_hash(s), after_hash(s) + 2)
    ELSE <<>>

\* \s* from position i: the position of the first character that is no whitespace
RECURSIVE skip_ws(_, _)
skip_ws(s, i) == IF i <= Len(s) /\ s[i] \in Whitespace THEN skip_ws(s, i + 1) ELSE i

\* \d+ from position i: the position after the digits (i when there is none)
RECURSIVE skip_digits(_, _)
skip_digits(s, i) == IF i <= Len(s) /\ is_digit(s[i]) THEN skip_digits(s, i + 1) ELSE i

\* a literal character at position i: the position after it, 0 when it is not there
expect(s, i, c) == IF i # 0 /\ i <= Len(s) /\ s[i] = c THEN i + 1 ELSE 0

\* \s*(\d+)\s* from position i: where the digits start and end, and where the
\* pattern goes on; next = 0 when there is no digit
number_at(s, i) ==
    IF i = 0 THEN [from |-> 0, to |-> 0, next |-> 0]
    ELSE IF skip_digits(s, skip_ws(s, i)) = skip_ws(s, i)
         THEN [from |-> 0, to |-> 0, next |-> 0]
         ELSE [from |-> skip_ws(s, i),
               to |-> skip_digits(s, skip_ws(s, i)) - 1,
               next |-> skip_ws(s, skip_digits(s, skip_ws(s, i)))]

\* int(group) of decimal digits
RECURSIVE to_int(_)
to_int(ds) == IF ds = <<>> THEN 0 ELSE 10 * to_int(SubSeq(ds, 1, Len(ds) - 1)) + digit(ds[Len(ds)])

rgb_found(s, n1, n2, n3) ==
    [end |-> expect(s, n3.next, ")"),
     groups |-> IF expect(s, n3.next, ")") = 0 THEN <<>>
                ELSE << to_int(SubSeq(s, n1.from, n1.to)),
                        to_int(SubSeq(s, n2.from, n2.to)),
                        to_int(SubSeq(s, n3.from, n3.to)) >>]

rgb_third(s, n1, n2) == rgb_found(s, n1, n2, number_at(s, expect(s, n2.next, ",")))
rgb_second(s, n1) == rgb_third(s, n1, number_at(s, expect(s, n1.next, ",")))

\* re.match(r'rgb\s*\(\s*(\d+)\s*,\s*(\d+)\s*,\s*(\d+)\s*\)', s): the match starts
\* at the start of s and may end before the end of s.  end is the position
\* after the match, 0 when there is no match.
match_rgb(s) ==
    IF Len(s) >= 3 /\ SubSeq(s, 1, 3) = <<"r","g","b">>
    THEN rgb_second(s, number_at(s, expect(s, skip_ws(s, 4), "(")))
    ELSE [end |-> 0, groups |-> <<>>]

Parsed(rgb) == [ok |-> TRUE, rgb |-> rgb, error |-> <<>>]
\* raise ValueError(f"Could not parse color: {color_str}")
ParseError(s) == [ok |-> FALSE, rgb |-> <<>>, error |-> s]

\* the three patterns tried in turn on the normalized string
parse_normalized(s) ==
    IF match_hex6(s) # <<>>
    THEN Parsed(<< hex_pair(match_hex6(s)[1], match_hex6(s)[2]),
                   hex_pair(match_hex6(s)[3], match_hex6(s)[4]),
                   hex_pair(match_hex6(s)[5], match_hex6(s)[6]) >>)
    ELSE IF match_hex3(s) # <<>>
         THEN Parsed(<< hex_pair(match_hex3(s)[1], match_hex3(s)[1]),
                        hex_pair(match_hex3(s)[2], match_hex3(s)[2]),
                        hex_pair(match_hex3(s)[3], match_hex3(s)[3]) >>)
         ELSE IF match_rgb(s).end # 0
              THEN Parsed(match_rgb(s).groups)
              ELSE ParseError(s)

\* the named-color lookup on the stripped, lower-cased string
substitute_named(s) == IF in_named_colors(s) THEN named_color(s) ELSE s

parse_color(color_str) == parse_normalized(substitute_named(lower(strip(color_str))))

\* adjust(v / 255.0) for v in 0..300, in units of 1/10000 (rounded);
\* parse_color puts no upper limit on the components of rgb(r, g, b)
LinearTable ==
    <<
       0, 3, 6, 9, 12, 15, 18, 21, 24, 27, 30, 33, 37, 40, 44, 48,
       52, 56, 60, 65, 70, 75, 80, 86, 91, 97, 103, 110, 116, 123, 130, 137,
       144, 152, 160, 168, 176, 185, 194, 203, 212, 222, 232, 242, 252, 262, 273, 284,
       296, 307, 319, 331, 343, 356, 369, 382, 395, 409, 423, 437, 452, 467, 482, 497,
       513, 529, 545, 561, 578, 595, 612, 630, 648, 666, 685, 704, 723, 742, 762, 782,
       802, 823, 844, 865, 887, 908, 931, 953, 976, 999, 1022, 1046, 1070, 1095, 1119, 1144,
       1170, 1195, 1221, 1248, 1274, 1301, 1329, 1356, 1384, 1413, 1441, 1470, 1500, 1529, 1559, 1590,
       1620, 1651, 1683, 1714, 1746, 1779, 1812, 1845, 1878, 1912, 1946, 1981, 2016, 2051, 2086, 2122,
       2159, 2195, 2232, 2270, 2307, 2346, 2384, 2423, 2462, 2502, 2542, 2582, 2623, 2664, 2705, 2747,
       2789, 2831, 2874, 2918, 2961, 3005, 3050, 3095, 3140, 3185, 3231, 3278, 3325, 3372, 3419, 3467,
       3515, 3564, 3613, 3663, 3712, 3763, 3813, 3864, 3916, 3968, 4020, 4072, 4125, 4179, 4233, 4287,
       4342, 4397, 4452, 4508, 4564, 4621, 4678, 4735, 4793, 4851, 4910, 4969, 5029, 5089, 5149, 5210,
       5271, 5333, 5395, 5457, 5520, 5583, 5647, 5711, 5776, 5841, 5906, 5972, 6038, 6105, 6172, 6240,
       6308, 6376, 6445, 6514, 6584, 6654, 6724, 6795, 6867, 6939, 7011, 7084, 7157, 7231, 7305, 7379,
       7454, 7529, 7605, 7682, 7758, 7835, 7913, 7991, 8070, 8148, 8228, 8308, 8388, 8469, 8550, 8632,
       8714, 8796, 8879, 8963, 9047, 9131, 9216, 9301, 9387, 9473, 9560, 9647, 9734, 9823, 9911, 10000,
       10089, 10179, 10270, 10361, 10452, 10544, 10636, 10729, 10822, 10915, 11010, 11104, 11199, 11295, 11391, 11487,
       11584, 11682, 11780, 11878, 11977, 12076, 12176, 12276, 12377, 12478, 12580, 12682, 12785, 12888, 12992, 13096,
       13201, 13306, 13412, 13518, 13624, 13731, 13839, 13947, 14056, 14165, 14274, 14384, 14495 >>

adjust(v) == LinearTable[v + 1]

\* get_relative_luminance, in units of 1/100000000
get_relative_luminance(rgb) ==
    2126 * adjust(rgb[1]) + 7152 * adjust(rgb[2]) + 722 * adjust(rgb[3])

\* 0.05 in the units of the luminance
Offset == 5000000

\* a ratio is a fraction <<numerator, denominator>>
max(a, b) == IF a >= b THEN a ELSE b
min(a, b) == IF a <= b THEN a ELSE b

\* (lum1 + 0.05) / (lum2 + 0.05) without looking for the lighter color
ratio_of_luminances_unordered(lum1, lum2) == << lum1 + Offset, lum2 + Offset >>

\* (lighter + 0.05) / (darker + 0.05)
ratio_of_luminances(lum1, lum2) == << max(lum1, lum2) + Offset, min(lum1, lum2) + Offset >>

ratio_of_parsed(p1, p2) ==
    IF ~p1.ok THEN [ok |-> FALSE, ratio |-> <<>>, error |-> p1.error]
    ELSE IF ~p2.ok THEN [ok |-> FALSE, ratio |-> <<>>, error |-> p2.error]
    ELSE [ok |-> TRUE,
          ratio |-> ratio_of_luminances(get_relative_luminance(p1.rgb),
                                        get_relative_luminance(p2.rgb)),
          error |-> <<>>]

\* get_contrast_ratio: the ratio, or the ValueError of the first color that
\* does not parse
get_contrast_ratio(color1, color2) == ratio_of_parsed(parse_color(color1), parse_color(color2))

\* ratio >= t for fractions
ratio_ge(r, t) == r[1] * t[2] >= t[1] * r[2]

Ratio_7_0 == <<7, 1>>
Ratio_4_5 == <<9, 2>>
Ratio_3_0 == <<3, 1>>

LevelAA == <<"A","A">>
LevelAAA == <<"A","A","A">>

\* the thresholds of the two levels swapped
required_ratio_swapped(level, large_text) ==
    IF level = LevelAAA
    THEN (IF large_text THEN Ratio_3_0 ELSE Ratio_4_5)
    ELSE (IF large_text THEN Ratio_4_5 ELSE Ratio_7_0)

\* lines 141-144
required_ratio(level, large_text) ==
    IF level = LevelAAA
    THEN (IF large_text THEN Ratio_4_5 ELSE Ratio_7_0)
    ELSE (IF large_text THEN Ratio_3_0 ELSE Ratio_4_5)

\* the grade with "AAA+" given to normal text
grade_of_plus_for_normal(ratio, large_text) ==
    IF ratio_ge(ratio, Ratio_7_0) THEN (IF large_text THEN "AAA" ELSE "AAA+")
    ELSE IF ratio_ge(ratio, Ratio_4_5) THEN (IF large_text THEN "AAA" ELSE "AA")
    ELSE IF ratio_ge(ratio, Ratio_3_0) THEN (IF large_text THEN "AA" ELSE "Fail")
    ELSE "Fail"

\* lines 149-156
grade_of(ratio, large_text) ==
    IF ratio_ge(ratio, Ratio_7_0) THEN (IF ~large_text THEN "AAA" ELSE "AAA+")
    ELSE IF ratio_ge(ratio, Ratio_4_5) THEN (IF large_text THEN "AAA" ELSE "AA")
    ELSE IF ratio_ge(ratio, Ratio_3_0) THEN (IF large_text THEN "AA" ELSE "Fail")
    ELSE "Fail"

\* check_wcag_compliance once the ratio is known (lines 140-167)
compliance(ratio, level, large_text) ==
    [ok |-> TRUE,
     ratio |-> ratio,
     level |-> level,
     large_text |-> large_text,
     passes |-> ratio_ge(ratio, required_ratio(level, large_text)),
     required |-> required_ratio(level, large_text),
     grade |-> grade_of(ratio, large_text)]

compliance_of(r, level, large_text) ==
    IF r.ok THEN compliance(r.ratio, level, large_text)
    ELSE [ok |-> FALSE, error |-> r.error]

check_wcag_compliance(foreground, background, level, large_text) ==
    compliance_of(get_contrast_ratio(foreground, background), level, large_text)

\* '#{:02x}{:02x}{:02x}'.format(*rgb): each component in lower-case hex, at
\* least two digits wide and wider when the component is above 255
format_hex(rgb) ==
    LET hex_byte(v) ==
            (IF v >= 256 THEN <<HexChars[(v \div 256) + 1]>> ELSE <<>>)
            \o <<HexChars[((v \div 16) % 16) + 1], HexChars[(v % 16) + 1]>>
    IN <<"#">> \o hex_byte(rgb[1]) \o hex_byte(rgb[2]) \o hex_byte(rgb[3])

\* one of the two loops of suggest_adjustments: the adjustments are tried in
\* order, the adjusted color is formatted and given to get_contrast_ratio with
\* the other color as it was written, and the first one that reaches the
\* target is printed (<<>> when none does)
RECURSIVE first_adjustment(_, _, _, _, _)
first_adjustment(adjustments, rgb, other, target_ratio, darken) ==
    IF adjustments = <<>> THEN <<>>
    ELSE LET adjusted_hex ==
                 format_hex([i \in 1..3 |->
                               IF darken THEN max(0, rgb[i] - Head(adjustments))
                               ELSE min(255, rgb[i] + Head(adjustments))])
             ratio == IF darken THEN get_contrast_ratio(adjusted_hex, other).ratio
                      ELSE get_contrast_ratio(other, adjusted_hex).ratio
         IN IF ratio_ge(ratio, target_ratio)
            THEN << [direction |-> IF darken THEN "Darken foreground"
                                   ELSE "Lighten background",
                     adjusted_hex |-> adjusted_hex,
                     ratio |-> ratio] >>
            ELSE first_adjustment(Tail(adjustments), rgb, other, target_ratio, darken)

\* suggest_adjustments for two colors that parse: the lines it prints
suggest_adjustments(foreground, background, target_ratio) ==
    <<"suggestions">>
    \o first_adjustment(<<20, 40, 60, 80, 100>>, parse_color(foreground).rgb,
                        background, target_ratio, TRUE)
    \o first_adjustment(<<20, 40, 60, 80, 100>>, parse_color(background).rgb,
                        foreground, target_ratio, FALSE)

(***************************************************************************)
(* parse_color on its own                                                  *)
(***************************************************************************)
MaxHexLen == 7      \* hex digits of a hex literal given to parse_color

NoAuditorState ==
    /\ NoAuditor
    /\ NoDriver
    /\ NoLevels

ParseInput(s) ==
    /\ cargs = [color_str |-> s]
    /\ cpc = "start"
    /\ result = <<>>
    /\ cexit = -1
    /\ cout = <<>>
    /\ cerr = <<>>
    /\ NoAuditorState

\* the strings given to parse_color: hex literals of 1..MaxHexLen digits, names,
\* rgb(...) forms, each with or without padding and trailing characters
InitParse ==
    LET HexAlphabet == { "0", "F" }
        NameInputs == { <<"w","h","i","t","e">>, <<"B","l","a","c","k">>, <<"n","a","v","y">>, <<"p","i","n","k">>,
                        <<"c","h","a","r","t","r","e","u","s","e","-","i","s","h">> }
        RgbHeads == { <<"r","g","b","(">>, <<"R","G","B"," ","(">>, <<"r","g","(">> }
        RgbNumbers == { <<"0">>, <<"2","5","5">>, <<" ","3","0","0">>, <<>> }
        RgbTails == { <<")">>, <<" ",")">>, <<>> }
    IN \E pad \in { <<>>, <<" ">> } : \E suffix \in { <<>>, <<"z">>, <<" ">> } :
          \/ \E n \in 1..MaxHexLen : \E hash \in { <<>>, <<"#">> } :
             \E body \in [1..n -> HexAlphabet] :
                ParseInput(pad \o hash \o body \o suffix)
          \/ \E name \in NameInputs : ParseInput(pad \o name \o suffix)
          \/ \E head \in RgbHeads : \E tail \in RgbTails :
             \E n1 \in RgbNumbers : \E n2 \in RgbNumbers : \E n3 \in RgbNumbers :
                ParseInput(pad \o head \o n1 \o <<",">> \o n2 \o <<",">> \o n3
                               \o tail \o suffix)

\* checker.parse_color(color_str)
ParseColor ==
    /\ cpc = "start"
    /\ result' = parse_color(cargs.color_str)
    /\ cpc' = "return"
    /\ UNCHANGED <<cargs, cexit, cout, cerr, auditorVars, driverVars, levelVars>>

SpecParse == InitParse /\ [][ParseColor]_vars

\* the four forms, each matching the whole string
ExactHex(s, n) ==
    /\ Len(s) = after_hash(s) + n - 1
    /\ \A i \in after_hash(s)..Len(s) : is_hex(s[i])

Recognized(s) ==
    \/ in_named_colors(s)
    \/ ExactHex(s, 6)
    \/ ExactHex(s, 3)
    \/ match_rgb(s).end = Len(s) + 1

\* C8: parse_color returns an RGB triple only for input that, stripped and
\* lower-cased, is exactly a named color, a 6-digit hex, a 3-digit hex or
\* rgb(r,g,b); every other string fails with a parse error naming the string.
C8_OnlyRecognized ==
    cpc = "return" =>
        LET s == lower(strip(cargs.color_str))
        IN /\ result.ok => Recognized(s)
           /\ ~Recognized(s) => (~result.ok /\ result.error = s)

(***************************************************************************)
(* check_wcag_compliance for a given ratio                                 *)
(***************************************************************************)
MaxTenths == 80     \* the ratios graded are 1.0, 1.1, ... MaxTenths / 10

ContrastLevels == { LevelAA, LevelAAA, <<"A">> }

InitGrade ==
    /\ \E n \in 10..MaxTenths : \E level \in ContrastLevels : \E large_text \in BOOLEAN :
          cargs = [ratio |-> <<n, 10>>, level |-> level, large_text |-> large_text]
    /\ cpc = "start"
    /\ result = <<>>
    /\ cexit = -1
    /\ cout = <<>>
    /\ cerr = <<>>
    /\ NoAuditorState

\* lines 140-167 of check_wcag_compliance for the ratio of the call
Grade ==
    /\ cpc = "start"
    /\ result' = compliance(cargs.ratio, cargs.level, cargs.large_text)
    /\ cpc' = "return"
    /\ UNCHANGED <<cargs, cexit, cout, cerr, auditorVars, driverVars, levelVars>>

SpecGrade == InitGrade /\ [][Grade]_vars

\* the ratio of the call, in tenths
Tenths == cargs.ratio[1]

\* C6 as stated: >= 7.0 is "AAA+" for normal text and "AAA" for large text
C6_Original ==
    cpc = "return" =>
        result.grade =
            IF Tenths >= 70 THEN (IF cargs.large_text THEN "AAA" ELSE "AAA+")
            ELSE IF Tenths >= 45 THEN (IF cargs.large_text THEN "AAA" ELSE "AA")
            ELSE IF Tenths >= 30 THEN (IF cargs.large_text THEN "AA" ELSE "Fail")
            ELSE "Fail"

\* C6 (amended): ratio >= 7.0 gives "AAA" when large_text is false and "AAA+"
\* when it is true; 4.5 <= ratio < 7.0 gives "AAA" if large_text else "AA";
\* 3.0 <= ratio < 4.5 gives "AA" if large_text else "Fail"; ratio < 3.0 gives
\* "Fail".  "AAA+" is reached only when large_text is true, and the grade does
\* not depend on level.
C6_GradeBands ==
    cpc = "return" =>
        /\ Tenths >= 70 => result.grade = (IF cargs.large_text THEN "AAA+" ELSE "AAA")
        /\ (45 <= Tenths /\ Tenths < 70) =>
              result.grade = (IF cargs.large_text THEN "AAA" ELSE "AA")
        /\ (30 <= Tenths /\ Tenths < 45) =>
              result.grade = (IF cargs.large_text THEN "AA" ELSE "Fail")
        /\ Tenths < 30 => result.grade = "Fail"
        /\ result.grade = "AAA+" => cargs.large_text
        /\ \A level \in ContrastLevels :
              compliance(cargs.ratio, level, cargs.large_text).grade = result.grade

\* large text at exactly 7.0, graded "AAA+"
C6_Witness ==
    /\ cpc = "return"
    /\ Tenths = 70
    /\ cargs.large_text
    /\ cargs.level = LevelAA
    /\ result.grade = "AAA+"

\* C15: the pass verdict and the grade of check_wcag_compliance agree: with
\* level AAA passes is true exactly when the grade is "AAA" or "AAA+"; with
\* level AA, and with any other level string, which is treated as AA, passes is
\* true exactly when the grade is not "Fail".
C15_PassesMatchesGrade ==
    cpc = "return" =>
        IF cargs.level = LevelAAA
        THEN result.passes <=> result.grade \in {"AAA", "AAA+"}
        ELSE /\ result.passes <=> result.grade # "Fail"
             /\ result.passes =
                   compliance(cargs.ratio, LevelAA, cargs.large_text).passes

\* large text at 4.5 checked against AAA: passes with grade "AAA"
C15_Witness ==
    /\ cpc = "return"
    /\ Tenths = 45
    /\ cargs.large_text
    /\ cargs.level = LevelAAA
    /\ result.passes
    /\ result.grade = "AAA"

(***************************************************************************)
(* get_contrast_ratio on two colors, in both orders                        *)
(***************************************************************************)
ColorArgs ==
    { <<"#","0","0","0">>,
      <<"#","F","F","F">>,
      <<"#","7","6","7","6","7","6">>,
      <<"#","5","5","5">>,
      <<"#","9","4","9","4","9","4">>,
      <<"#","9","9","9">>,
      <<"b","l","a","c","k">>,
      <<"w","h","i","t","e">>,
      <<"r","g","b","(","2","5","5",","," ","2","5","5",","," ","2","5","5",")">>,
      <<"z","z","z">>,
      <<"#","f","f","f","f","f","f","z","z">> }

InitRatio ==
    /\ \E a \in ColorArgs : \E b \in ColorArgs : cargs = [a |-> a, b |-> b]
    /\ cpc = "start"
    /\ result = [ab |-> <<>>, ba |-> <<>>, aa |-> <<>>]
    /\ cexit = -1
    /\ cout = <<>>
    /\ cerr = <<>>
    /\ NoAuditorState

\* checker.get_contrast_ratio(a, b)
RatioAB ==
    /\ result.ab = <<>>
    /\ result' = [result EXCEPT !.ab = <<get_contrast_ratio(cargs.a, cargs.b)>>]
    /\ UNCHANGED <<cargs, cpc, cexit, cout, cerr, auditorVars, driverVars, levelVars>>

\* checker.get_contrast_ratio(b, a)
RatioBA ==
    /\ result.ba = <<>>
    /\ result' = [result EXCEPT !.ba = <<get_contrast_ratio(cargs.b, cargs.a)>>]
    /\ UNCHANGED <<cargs, cpc, cexit, cout, cerr, auditorVars, driverVars, levelVars>>

\* checker.get_contrast_ratio(a, a)
RatioAA ==
    /\ result.aa = <<>>
    /\ result' = [result EXCEPT !.aa = <<get_contrast_ratio(cargs.a, cargs.a)>>]
    /\ UNCHANGED <<cargs, cpc, cexit, cout, cerr, auditorVars, driverVars, levelVars>>

NextRatio == RatioAB \/ RatioBA \/ RatioAA
SpecRatio == InitRatio /\ [][NextRatio]_vars

\* C9: for valid colors a and b the ratio of (a, b) equals the ratio of (b, a),
\* the ratio of (a, a) is 1.0, and every ratio is >= 1.0.
C9_Symmetric ==
    /\ (result.ab # <<>> /\ result.ba # <<>> /\ result.ab[1].ok) =>
          /\ result.ba[1].ok
          /\ result.ab[1].ratio = result.ba[1].ratio
    /\ (result.aa # <<>> /\ result.aa[1].ok) =>
          result.aa[1].ratio[1] = result.aa[1].ratio[2]
    /\ \A r \in { result.ab, result.ba, result.aa } :
          (r # <<>> /\ r[1].ok) => r[1].ratio[1] >= r[1].ratio[2]

\* a darker first color, both orders computed, the ratio above 1
C9_Witness ==
    /\ result.ab # <<>> /\ result.ba # <<>> /\ result.aa # <<>>
    /\ result.ab[1].ok /\ result.aa[1].ok
    /\ parse_color(cargs.a).rgb[1] < parse_color(cargs.b).rgb[1]
    /\ result.ab[1].ratio[1] > result.ab[1].ratio[2]

(***************************************************************************)
(* main of contrast_checker.py                                             *)
(***************************************************************************)
MaxColorArgs == 2   \* leading color arguments on the command line

OptLevel == <<"-","-","l","e","v","e","l">>
OptLargeText == <<"-","-","l","a","r","g","e","-","t","e","x","t">>
OptSuggest == <<"-","-","s","u","g","g","e","s","t">>

\* cargs.argv[i] is sys.argv[i] for i >= 1; sys.argv[0] is the script.  The
\* command line: up to MaxColorArgs colors, then --level with or without a
\* value, --large-text and --suggest, each given or not
InitContrast ==
    /\ LET MainColors == { <<"#","0","0","0">>,
                           <<"#","F","F","F">>,
                           <<"#","7","6","7","6","7","6">>,
                           <<"#","9","9","9">>,
                           <<"w","h","i","t","e">>,
                           <<"r","g","b","(","3","0","0",",","3","0","0",",","3","0","0",")">> }
           LevelArgs == { <<"a","a">>, <<"A","A","A">>, <<"a","a","a">>, <<"a">> }
           LevelOptions == { <<>>, <<OptLevel>> } \cup { <<OptLevel, l>> : l \in LevelArgs }
       IN \E n \in 0..MaxColorArgs : \E colors \in [1..n -> MainColors] :
          \E lv \in LevelOptions : \E lt \in { <<>>, <<OptLargeText>> } :
          \E sg \in { <<>>, <<OptSuggest>> } :
             cargs = [argv |-> colors \o lv \o lt \o sg]
    /\ cpc = "start"
    /\ result = <<>>
    /\ cexit = -1
    /\ cout = <<>>
    /\ cerr = <<>>
    /\ NoAuditorState

\* option in sys.argv
in_argv(args, option) == \E i \in 1..Len(args) : args[i] = option

\* sys.argv.index(option)
argv_index(args, option) ==
    CHOOSE i \in 1..Len(args) : args[i] = option /\ \A j \in 1..(i - 1) : args[j] # option

\* level = 'AA', or sys.argv[idx + 1].upper() when --level has a value
level_of(args) ==
    IF in_argv(args, OptLevel) /\ argv_index(args, OptLevel) + 1 <= Len(args)
    THEN upper(args[argv_index(args, OptLevel) + 1])
    ELSE LevelAA

\* main with len(sys.argv) < 3: prints the usage, sys.exit(1)
ContrastUsage ==
    /\ cpc = "start"
    /\ Len(cargs.argv) + 1 < 3
    /\ cout' = <<"usage">>
    /\ cexit' = 1
    /\ cpc' = "exit"
    /\ UNCHANGED <<cargs, result, cerr, auditorVars, driverVars, levelVars>>

\* a parse error leaves the try block with exit code 1
main_exit_error_as_failure(r, foreground, background, show_suggestions) ==
    IF r.ok
    THEN [out |-> <<"result">>
                    \o (IF show_suggestions /\ ~r.passes
                        THEN suggest_adjustments(foreground, background, r.required)
                        ELSE <<>>),
          err |-> <<>>,
          code |-> IF r.passes THEN 0 ELSE 1]
    ELSE [out |-> <<>>, err |-> <<"Error", r.error>>, code |-> 1]

\* the try block of main: print the result, the suggestions when asked for and
\* failing, sys.exit(0 if passes else 1); a ValueError is reported, sys.exit(2)
main_exit(r, foreground, background, show_suggestions) ==
    IF r.ok
    THEN [out |-> <<"result">>
                    \o (IF show_suggestions /\ ~r.passes
                        THEN suggest_adjustments(foreground, background, r.required)
                        ELSE <<>>),
          err |-> <<>>,
          code |-> IF r.passes THEN 0 ELSE 1]
    ELSE [out |-> <<>>, err |-> <<"Error", r.error>>, code |-> 2]

ContrastExit(r, e) ==
    /\ result' = r
    /\ cout' = e.out
    /\ cerr' = e.err
    /\ cexit' = e.code
    /\ cpc' = "exit"
    /\ UNCHANGED <<cargs, auditorVars, driverVars, levelVars>>

ContrastChecked(r) ==
    ContrastExit(r, main_exit(r, cargs.argv[1], cargs.argv[2], in_argv(cargs.argv, OptSuggest)))

ContrastMain ==
    /\ cpc = "start"
    /\ Len(cargs.argv) + 1 >= 3
    /\ ContrastChecked(check_wcag_compliance(cargs.argv[1], cargs.argv[2],
                                             level_of(cargs.argv),
                                             in_argv(cargs.argv, OptLargeText)))

NextContrast == ContrastUsage \/ ContrastMain
SpecContrast == InitContrast /\ [][NextContrast]_vars

\* the run was given two colors and both parse
BothParse ==
    /\ Len(cargs.argv) >= 2
    /\ parse_color(cargs.argv[1]).ok
    /\ parse_color(cargs.argv[2]).ok

\* required: 7.0 (AAA normal), 4.5 (AAA large), 4.5 (AA normal), 3.0 (AA large)
ClaimedRequired ==
    IF level_of(cargs.argv) = LevelAAA
    THEN (IF in_argv(cargs.argv, OptLargeText) THEN <<9, 2>> ELSE <<7, 1>>)
    ELSE (IF in_argv(cargs.argv, OptLargeText) THEN <<3, 1>> ELSE <<9, 2>>)

\* ratio >= required, for colors that parse
MeetsRequired ==
    ClaimedRequired[2] * get_contrast_ratio(cargs.argv[1], cargs.argv[2]).ratio[1]
        >= ClaimedRequired[1] * get_contrast_ratio(cargs.argv[1], cargs.argv[2]).ratio[2]

\* C7 as stated, of every run: exit 0 exactly when both colors parse and the
\* ratio reaches the required one, exit 1 exactly when both parse and it does
\* not, exit 2 exactly when a color fails to parse
C7_Original ==
    cpc = "exit" =>
        /\ cexit = 0 <=> (BothParse /\ MeetsRequired)
        /\ cexit = 1 <=> (BothParse /\ ~MeetsRequired)

\* C7 (amended): a run given at least two arguments takes the first two as the
\* colors and exits with 0 exactly when both parse and ratio >= required, with
\* 1 exactly when both parse and ratio < required, and with 2 exactly when one
\* of them fails to parse, where required is 7.0 (AAA normal), 4.5 (AAA large),
\* 4.5 (AA normal) or 3.0 (AA large); on a parse error no result is printed.
\* A run given fewer than two arguments prints the usage and exits with 1.
C7_ExitCodes ==
    cpc = "exit" =>
        IF Len(cargs.argv) >= 2
        THEN /\ cexit \in {0, 1, 2}
             /\ cexit = 0 <=> (BothParse /\ MeetsRequired)
             /\ cexit = 1 <=> (BothParse /\ ~MeetsRequired)
             /\ cexit = 2 <=> ~BothParse
             /\ ~BothParse => (cout = <<>> /\ cerr # <<>>)
             /\ BothParse => (cout # <<>> /\ cerr = <<>>)
        ELSE /\ cexit = 1
             /\ cout = <<"usage">>
             /\ result = <<>>

\* a second color that does not parse after one that does: exit 2, nothing printed
C7_Witness ==
    /\ cpc = "exit"
    /\ Len(cargs.argv) >= 2
    /\ parse_color(cargs.argv[1]).ok
    /\ ~parse_color(cargs.argv[2]).ok
    /\ level_of(cargs.argv) = LevelAAA
    /\ cexit = 2
    /\ cout = <<>>

\* the run printed suggestions
Suggested == cpc = "exit" /\ Len(cout) >= 2 /\ cout[2] = "suggestions"

\* the foreground with every channel set to max(0, c - s), or the background
\* with every channel set to min(255, c + s)
AdjustedBy(s, darken) ==
    [i \in 1..3 |-> IF darken THEN max(0, parse_color(cargs.argv[1]).rgb[i] - s)
                    ELSE min(255, parse_color(cargs.argv[2]).rgb[i] + s)]

\* the ratio of the color adjusted by s against the unchanged other color
AdjustedRatio(s, darken) ==
    ratio_of_luminances(
        get_relative_luminance(AdjustedBy(s, darken)),
        get_relative_luminance(parse_color(cargs.argv[IF darken THEN 2 ELSE 1]).rgb))

\* the steps for which the adjusted color meets the target
Qualifying(darken) ==
    { s \in {20, 40, 60, 80, 100} :
        AdjustedRatio(s, darken)[1] * result.required[2]
            >= result.required[1] * AdjustedRatio(s, darken)[2] }

SmallestQualifying(darken) ==
    CHOOSE s \in Qualifying(darken) : \A t \in Qualifying(darken) : s <= t

\* the positions of the suggestions printed for a direction
SuggestionLines(darken) ==
    { k \in 3..Len(cout) :
        cout[k].direction = (IF darken THEN "Darken foreground" ELSE "Lighten background") }

\* C14: suggest_adjustments reports, for each direction separately, at most one
\* suggestion: the smallest step s of 20, 40, 60, 80, 100 for which the color
\* with every channel set to max(0, c - s) (foreground) or min(255, c + s)
\* (background) meets the target against the unchanged other color, and nothing
\* if no step qualifies; one direction never affects the other.
C14_Suggestions ==
    Suggested =>
        \A darken \in BOOLEAN :
           IF Qualifying(darken) = {}
           THEN SuggestionLines(darken) = {}
           ELSE /\ Cardinality(SuggestionLines(darken)) = 1
                /\ \A k \in SuggestionLines(darken) :
                      /\ cout[k].ratio = AdjustedRatio(SmallestQualifying(darken), darken)
                      /\ parse_color(cout[k].adjusted_hex).rgb
                            = AdjustedBy(SmallestQualifying(darken), darken)

====
